---- MODULE Spec2Model ----
(***************************************************************************)
(* A model of src/src/Expression.js, the DynamoDB command builder of       *)
(* dynamodb-onetable.  One Expression instance is one translation: the     *)
(* constructor selects the index and parses the model's fields one by one  *)
(* (parseFields / add and the expression assemblers), prepare() composes   *)
(* the request.                                                            *)
(*                                                                         *)
(* Javascript values are records [k, s, e]: k is the type tag, s the       *)
(* characters of a string or number, e the entries of an object or array   *)
(* in insertion order.  Expression fragments are sequences of pieces       *)
(* (strings); a placeholder token such as "#_0" is one piece.              *)
(***************************************************************************)
EXTENDS Integers, Sequences, FiniteSets, TLC

VARIABLES
    pc,             \* position: idle | parse | constructed | done | error
    i,              \* parseFields: index of the next entry of model.fields
    op,             \* this.op
    params,         \* this.params
    properties,     \* this.properties
    model,          \* this.model (fields, map, indexes) and this.table.context
    index,          \* this.index (this.hash = index.hash, this.sort = index.sort)
    conditions,     \* this.conditions
    filters,        \* this.filters
    key,            \* this.key
    keys,           \* this.keys
    updates,        \* this.updates
    names,          \* this.names
    values,         \* this.values
    fieldValues,    \* this.fieldValues
    nindex,         \* this.nindex
    vindex,         \* this.vindex
    fallback,       \* this.fallback
    thrown,         \* the error the translation raised, "" when none
    result          \* what prepare() returned: pending | null | request
                    \* and the request's args

vars == <<pc, i, op, params, properties, model, index, conditions, filters, key,
          keys, updates, names, values, fieldValues, nindex, vindex, fallback,
          thrown, result>>

----------------------------------------------------------------------------
(* Bounds of the model. *)

\* Entries of a bulk add / remove / delete option: 1..MaxBulk.
MaxBulk == 2
\* Nesting depth of the structures handed to removeEmptyStrings on its own.
MaxDepth == 2

----------------------------------------------------------------------------
(* Javascript values. *)

Undefined == [k |-> "undefined", s |-> <<>>, e |-> <<>>]
Null == [k |-> "null", s |-> <<>>, e |-> <<>>]
Str(chars) == [k |-> "string", s |-> chars, e |-> <<>>]
Num(digits) == [k |-> "number", s |-> digits, e |-> <<>>]
Bool(chars) == [k |-> "boolean", s |-> chars, e |-> <<>>]
Obj(entries) == [k |-> "object", s |-> <<>>, e |-> entries]
Arr(entries) == [k |-> "array", s |-> <<>>, e |-> entries]
Entry(name, val) == [key |-> name, val |-> val]

EmptyString == Str(<<>>)

\* typeof v == 'object': objects, arrays and null.
TypeofObject(v) == v.k \in {"object", "array", "null"}

\* v == null: undefined or null.
IsNullish(v) == v.k \in {"undefined", "null"}

\* A property map: name -> value; a name outside the map is undefined.
EmptyMap == <<>>
Lookup(map, name) == IF name \in DOMAIN map THEN map[name] ELSE Undefined
Bind(map, name, val) ==
    [n \in DOMAIN map \cup {name} |-> IF n = name THEN val ELSE map[n]]

\* obj[name] of an object or array value.
RECURSIVE EntryValue(_, _)
EntryValue(entries, name) ==
    IF entries = <<>> THEN Undefined
    ELSE IF Head(entries).key = name THEN Head(entries).val
    ELSE EntryValue(Tail(entries), name)

----------------------------------------------------------------------------
(* removeEmptyStrings, lines 409-426. *)

RECURSIVE removeEmptyStrings(_, _)
RECURSIVE removeEmptyEntries(_, _)

\* The for loop of lines 413-421 over Object.entries(obj).
removeEmptyEntries(field, entries) ==
    IF entries = <<>> THEN <<>>
    ELSE LET ent == Head(entries)
             rest == removeEmptyEntries(field, Tail(entries))
         IN IF TypeofObject(ent.val)
            THEN <<Entry(ent.key, removeEmptyStrings(field, ent.val))>> \o rest
            ELSE IF ent.val = Null /\ field.nulls # TRUE
            THEN rest
            ELSE IF ent.val # EmptyString
            THEN <<ent>> \o rest
            ELSE rest

removeEmptyStrings(field, obj) ==
    IF obj # Null /\ TypeofObject(obj)
    THEN [obj EXCEPT !.e = removeEmptyEntries(field, obj.e)]
    ELSE obj

----------------------------------------------------------------------------
(* Javascript coercions used by the code. *)

\* if (v): the truthiness of a value.
Truthy(v) ==
    CASE v.k \in {"undefined", "null"} -> FALSE
      [] v.k = "string" -> v.s # <<>>
      [] v.k = "number" -> v.s # <<"0">>
      [] v.k = "boolean" -> v.s = <<"t", "r", "u", "e">>
      [] OTHER -> TRUE

\* String(v), as String.prototype.replace applies it to what its callback
\* returns.  Arrays are taken to be dense.
RECURSIVE ToChars(_)
RECURSIVE JoinChars(_)
JoinChars(entries) ==
    IF entries = <<>> THEN <<>>
    ELSE (IF IsNullish(Head(entries).val) THEN <<>> ELSE ToChars(Head(entries).val))
         \o (IF Len(entries) > 1 THEN <<",">> ELSE <<>>)
         \o JoinChars(Tail(entries))
ToChars(v) ==
    CASE v.k \in {"string", "number", "boolean"} -> v.s
      [] v.k = "null" -> <<"n", "u", "l", "l">>
      [] v.k = "undefined" -> <<"u", "n", "d", "e", "f", "i", "n", "e", "d">>
      [] v.k = "array" -> JoinChars(v.e)
      [] OTHER -> <<"[object Object]">>

----------------------------------------------------------------------------
(* Placeholder tokens. *)

\* `#_${nindex}`
NameToken(n) == "#_" \o ToString(n)
\* `:_${vindex}`
ValueToken(n) == ":_" \o ToString(n)

----------------------------------------------------------------------------
(* The mutable fields of the Expression, as one record the methods map. *)

This == [conditions |-> conditions, filters |-> filters, key |-> key, keys |-> keys,
         updates |-> updates, names |-> names, values |-> values,
         fieldValues |-> fieldValues, nindex |-> nindex, vindex |-> vindex,
         fallback |-> fallback, thrown |-> thrown]

\* A template or where-clause is a string value whose s is a sequence of
\* segments: literal text, a ${name} reference ("var") or a {value}
\* reference ("value").
Text(chars) == [kind |-> "text", s |-> chars]
Var(name) == [kind |-> "var", s |-> <<name>>]
Val(chars) == [kind |-> "value", s |-> chars]

\* The characters (pieces) of a segment sequence.
RECURSIVE Flatten(_)
Flatten(segs) == IF segs = <<>> THEN <<>> ELSE Head(segs).s \o Flatten(Tail(segs))

\* s.indexOf('${') >= 0
HasVar(segs) == \E j \in 1..Len(segs) : segs[j].kind = "var"

----------------------------------------------------------------------------
(* template, lines 370-407. *)

\* s.replace(/\${(.*?)}/g, ...) against one context, lines 382-388.
RECURSIVE Substitute(_, _)
Substitute(segs, context) ==
    IF segs = <<>> THEN <<>>
    ELSE LET seg == Head(segs)
         IN (IF seg.kind = "var" /\ Lookup(context, seg.s[1]) # Undefined
             THEN <<Text(ToChars(Lookup(context, seg.s[1])))>>
             ELSE <<seg>>)
            \o Substitute(Tail(segs), context)

\* s.replace(/\${(.*?)}/g, ''), line 396.
RECURSIVE StripVars(_)
StripVars(segs) ==
    IF segs = <<>> THEN <<>>
    ELSE (IF Head(segs).kind = "var" THEN <<>> ELSE <<Head(segs)>>)
         \o StripVars(Tail(segs))

\* The length of the run of sep that ends chars.
RECURSIVE TrailingRun(_, _)
TrailingRun(chars, sep) ==
    IF chars # <<>> /\ chars[Len(chars)] = sep
    THEN 1 + TrailingRun(SubSeq(chars, 1, Len(chars) - 1), sep)
    ELSE 0

\* s.replace(RegExp(`${sep}${sep}+$`, 'g'), ''), line 398: a trailing run of
\* two or more delimiters is removed.
TrimDelimiters(chars, sep) ==
    LET run == TrailingRun(chars, sep)
    IN IF run >= 2 THEN SubSeq(chars, 1, Len(chars) - run) ELSE chars

\* The first context that defines the name (contexts.find), line 375.
FindContext(contexts, name) ==
    LET hits == {j \in 1..Len(contexts) : Lookup(contexts[j], name) # Undefined}
    IN IF hits = {} THEN 0 ELSE CHOOSE j \in hits : \A h \in hits : j <= h

\* The contexts with the properties put first.
TemplateContextsPropertiesFirst(props, tableContext) == <<props, tableContext>>

\* contexts.push(properties), line 372: the rest arguments, then properties.
TemplateContexts(props, tableContext) == <<tableContext, props>>

template(field, props, tableContext) ==
    LET contexts == TemplateContexts(props, tableContext)
    IN IF IsNullish(field.value)
       THEN LET c == FindContext(contexts, field.name)
            IN IF c = 0 THEN Undefined ELSE Lookup(contexts[c], field.name)
       ELSE LET s == Substitute(Substitute(field.value.s, contexts[1]), contexts[2])
            IN IF HasVar(s)
               THEN IF field.attribute = index.sort /\ op = "find"
                       /\ ~Truthy(params.where)
                    THEN LET prefix == TrimDelimiters(Flatten(StripVars(s)),
                                                      model.delimiter)
                         IN IF prefix # <<>>
                            THEN Obj(<<Entry("begins", Str(prefix))>>)
                            ELSE Undefined
                    ELSE Undefined
               ELSE Str(Flatten(s))

----------------------------------------------------------------------------
(* makeConditions, lines 157-183. *)

\* this.model.map[varName] || varName, line 161.
MappedAttribute(varName) ==
    IF varName \in DOMAIN model.map THEN model.map[varName] ELSE varName

\* where.replace(/\${(.*?)}/g, ...), lines 160-164: every ${name} becomes a new
\* name token bound to the mapped attribute.
RECURSIVE ReplaceNames(_, _, _)
ReplaceNames(segs, nms, n) ==
    IF segs = <<>> THEN [segs |-> <<>>, names |-> nms, nindex |-> n]
    ELSE LET seg == Head(segs)
         IN IF seg.kind = "var"
            THEN LET rest == ReplaceNames(Tail(segs),
                                 Bind(nms, NameToken(n), MappedAttribute(seg.s[1])),
                                 n + 1)
                 IN [rest EXCEPT !.segs = <<Text(<<NameToken(n)>>)>> \o @]
            ELSE LET rest == ReplaceNames(Tail(segs), nms, n)
                 IN [rest EXCEPT !.segs = <<seg>> \o @]

Digits == {"0", "1", "2", "3", "4", "5", "6", "7", "8", "9"}

\* +value of a digit string: the number, written without leading zeros.
RECURSIVE ToNumber(_)
ToNumber(chars) ==
    IF Len(chars) > 1 /\ Head(chars) = "0" THEN ToNumber(Tail(chars)) ELSE Num(chars)

\* The literal a {value} token stands for, lines 166-177.
ParseLiteral(chars) ==
    IF chars # <<>> /\ \A j \in 1..Len(chars) : chars[j] \in Digits
    THEN ToNumber(chars)
    ELSE IF Len(chars) >= 2 /\ chars[1] = "\"" /\ chars[Len(chars)] = "\""
    THEN Str(SubSeq(chars, 2, Len(chars) - 1))
    ELSE IF chars = <<"t", "r", "u", "e">> \/ chars = <<"f", "a", "l", "s", "e">>
    THEN Bool(chars)
    ELSE Str(chars)

\* where.replace(/{(.*?)}/g, ...), lines 165-179: every {value} becomes a new
\* value token bound to the parsed literal.
RECURSIVE ReplaceValues(_, _, _)
ReplaceValues(segs, vals, n) ==
    IF segs = <<>> THEN [segs |-> <<>>, values |-> vals, vindex |-> n]
    ELSE LET seg == Head(segs)
         IN IF seg.kind = "value"
            THEN LET rest == ReplaceValues(Tail(segs),
                                 Bind(vals, ValueToken(n), ParseLiteral(seg.s)),
                                 n + 1)
                 IN [rest EXCEPT !.segs = <<Text(<<ValueToken(n)>>)>> \o @]
            ELSE LET rest == ReplaceValues(Tail(segs), vals, n)
                 IN [rest EXCEPT !.segs = <<seg>> \o @]

\* Returns the expression (ret) and the Expression as it leaves it (this).
makeConditions(t, where) ==
    LET a == ReplaceNames(where.s, t.names, t.nindex)
        b == ReplaceValues(a.segs, t.values, t.vindex)
    IN [this |-> [t EXCEPT !.names = a.names, !.nindex = a.nindex,
                           !.values = b.values, !.vindex = b.vindex],
        ret |-> Flatten(b.segs)]

----------------------------------------------------------------------------
(* The assemblers, lines 188-280. *)

\* addFilters, lines 188-192.
addFilters(t) ==
    IF Truthy(params.where)
    THEN LET made == makeConditions(t, params.where)
         IN [made.this EXCEPT !.filters = Append(@, made.ret)]
    ELSE t

\* addFilter without lines 202-203: the counters are not written back.
addFilterKeepCounters(t, attribute, value) ==
    [t EXCEPT !.filters = Append(@, <<NameToken(t.nindex), " = ", ValueToken(t.vindex)>>),
              !.names = Bind(@, NameToken(t.nindex), attribute),
              !.values = Bind(@, ValueToken(t.vindex), value)]

\* addFilter, lines 197-204.
addFilter(t, attribute, value) ==
    [t EXCEPT !.filters = Append(@, <<NameToken(t.nindex), " = ", ValueToken(t.vindex)>>),
              !.names = Bind(@, NameToken(t.nindex), attribute),
              !.values = Bind(@, ValueToken(t.vindex), value),
              !.nindex = @ + 1,
              !.vindex = @ + 1]

\* addKey, lines 209-211.
addKey(t, field, value) == [t EXCEPT !.key = Bind(@, field.attribute, value)]

\* vars[j] of the value a between directive carries, lines 229-230.
Element(v, j) ==
    IF v.k = "string"
    THEN IF j + 1 <= Len(v.s) THEN Str(<<v.s[j + 1]>>) ELSE Undefined
    ELSE EntryValue(v.e, ToString(j))

\* addKeys, lines 216-239.
addKeys(t, field, value) ==
    IF TypeofObject(value)
    THEN IF value = Null \/ value.e = <<>>
         THEN \* Object.entries(null), or destructuring entries[0] of {}
              [t EXCEPT !.thrown = "TypeError"]
         ELSE LET action == value.e[1].key
                  vars_ == value.e[1].val
              IN IF action = "begins" \/ action = "begins_with"
                 THEN [t EXCEPT
                         !.keys = Append(@, <<"begins_with(", NameToken(t.nindex), ", ",
                                              ValueToken(t.vindex), ")">>),
                         !.values = Bind(@, ValueToken(t.vindex), vars_),
                         !.vindex = @ + 1,
                         !.names = Bind(@, NameToken(t.nindex), field.attribute),
                         !.nindex = @ + 1]
                 ELSE IF action = "between"
                 THEN IF IsNullish(vars_)
                      THEN [t EXCEPT
                              !.keys = Append(@, <<"between(", NameToken(t.nindex), ", ",
                                                   ValueToken(t.vindex), ", ",
                                                   ValueToken(t.vindex + 1), ")">>),
                              !.thrown = "TypeError"]
                      ELSE [t EXCEPT
                              !.keys = Append(@, <<"between(", NameToken(t.nindex), ", ",
                                                   ValueToken(t.vindex), ", ",
                                                   ValueToken(t.vindex + 1), ")">>),
                              !.values = Bind(Bind(@, ValueToken(t.vindex), Element(vars_, 0)),
                                              ValueToken(t.vindex + 1), Element(vars_, 1)),
                              !.vindex = @ + 2,
                              !.names = Bind(@, NameToken(t.nindex), field.attribute),
                              !.nindex = @ + 1]
                 ELSE [t EXCEPT
                         !.names = Bind(@, NameToken(t.nindex), field.attribute),
                         !.nindex = @ + 1]
    ELSE [t EXCEPT
            !.keys = Append(@, <<NameToken(t.nindex), " = ", ValueToken(t.vindex)>>),
            !.values = Bind(@, ValueToken(t.vindex), value),
            !.vindex = @ + 1,
            !.names = Bind(@, NameToken(t.nindex), field.attribute),
            !.nindex = @ + 1]

\* addUpdate, lines 241-251.
addUpdate(t, field, value) ==
    IF field.isIndexed \/ Truthy(params.add) \/ Truthy(params.remove)
       \/ Truthy(params.delete)
    THEN t
    ELSE [t EXCEPT
            !.updates = Append(@, <<NameToken(t.nindex), " = ", ValueToken(t.vindex)>>),
            !.names = Bind(@, NameToken(t.nindex), field.attribute),
            !.values = Bind(@, ValueToken(t.vindex), value),
            !.nindex = @ + 1,
            !.vindex = @ + 1]

\* The loops of lines 256-260 and 272-276 over the entries of params.add or
\* params.delete.
RECURSIVE AddPairs(_, _)
AddPairs(t, entries) ==
    IF entries = <<>> THEN t
    ELSE AddPairs([t EXCEPT
                     !.updates = Append(@, <<NameToken(t.nindex), " ",
                                             ValueToken(t.vindex)>>),
                     !.names = Bind(@, NameToken(t.nindex), Head(entries).key),
                     !.values = Bind(@, ValueToken(t.vindex), Head(entries).val),
                     !.nindex = @ + 1,
                     !.vindex = @ + 1],
                  Tail(entries))

\* params.remove as the loop of line 266 sees it (lines 263-265).
RemoveList == IF params.remove.k = "array" THEN params.remove.e
              ELSE <<Entry("0", params.remove)>>

\* addUpdates, lines 253-280.  In the remove branch the first iteration
\* pushes `#_n` (line 267) and then reads `key` (line 268), which nothing in
\* scope declares: a ReferenceError, raised before names, nindex or vindex
\* change.
addUpdates(t) ==
    IF Truthy(params.add)
    THEN AddPairs(t, params.add.e)
    ELSE IF Truthy(params.remove)
    THEN IF RemoveList = <<>> THEN t
         ELSE [t EXCEPT !.updates = Append(@, <<NameToken(t.nindex)>>),
                        !.thrown = "ReferenceError: key is not defined"]
    ELSE IF Truthy(params.delete)
    THEN AddPairs(t, params.delete.e)
    ELSE t

----------------------------------------------------------------------------
(* addConditions, lines 128-152. *)

addConditions(t, o) ==
    LET t1 == IF params.exists = "true"
              THEN [t EXCEPT !.conditions =
                        @ \o << <<"attribute_exists(", index.hash, ")">>,
                                <<"attribute_exists(", index.sort, ")">> >>]
              ELSE IF params.exists = "false"
              THEN [t EXCEPT !.conditions =
                        @ \o << <<"attribute_not_exists(", index.hash, ")">>,
                                <<"attribute_not_exists(", index.sort, ")">> >>]
              ELSE t
        t2 == IF params.type # ""
              THEN [t1 EXCEPT !.conditions =
                        Append(@, <<"attribute_type(", index.sort, ", ", params.type, ")">>)]
              ELSE t1
        t3 == IF o = "update" /\ (Truthy(params.add) \/ Truthy(params.remove)
                                  \/ Truthy(params.delete))
              THEN addUpdates(t2)
              ELSE t2
    IN IF t3.thrown # "" THEN t3
       ELSE IF Truthy(params.where) /\ (o = "delete" \/ o = "update")
       THEN LET made == makeConditions(t3, params.where)
            IN [made.this EXCEPT !.conditions = Append(@, made.ret)]
       ELSE t3

----------------------------------------------------------------------------
(* add, lines 99-122. *)

\* add with a filter for every field that is no key of the active index:
\* the test of line 101 taken for that of line 102.
addFilterNonActiveKeys(t, field, value) ==
    LET t1 == IF field.attribute = index.hash \/ field.attribute = index.sort
              THEN IF ~field.isIndexed THEN t
                   ELSE IF op = "find" THEN addKeys(t, field, value)
                   ELSE IF op = "delete" \/ op = "get" \/ op = "update"
                   THEN addKey(t, field, value)
                   ELSE t
              ELSE IF op = "find" \/ op = "scan"
                   THEN addFilter(t, field.attribute, value)
                   ELSE t
        t2 == IF op = "put" THEN [t1 EXCEPT !.values = Bind(@, field.attribute, value)]
              ELSE IF op = "update" THEN addUpdate(t1, field, value)
              ELSE t1
    IN IF t1.thrown # "" THEN t1
       ELSE [t2 EXCEPT !.fieldValues = Bind(@, field.attribute, value)]

add(t, field, value) ==
    LET t1 == IF field.isIndexed
              THEN IF field.attribute = index.hash \/ field.attribute = index.sort
                   THEN IF op = "find" THEN addKeys(t, field, value)
                        ELSE IF (op = "delete" \/ op = "get" \/ op = "update")
                                /\ field.isIndexed
                        THEN addKey(t, field, value)
                        ELSE t
                   ELSE t
              ELSE IF op = "find" \/ op = "scan"
                   THEN addFilter(t, field.attribute, value)
                   ELSE t
        t2 == IF op = "put" THEN [t1 EXCEPT !.values = Bind(@, field.attribute, value)]
              ELSE IF op = "update" THEN addUpdate(t1, field, value)
              ELSE t1
    IN IF t1.thrown # "" THEN t1
       ELSE [t2 EXCEPT !.fieldValues = Bind(@, field.attribute, value)]

----------------------------------------------------------------------------
(* parseFields, lines 59-94. *)

\* this.table.uuid(), line 65: the identifier generator of the table.
uuid == Str(<<"generated-uuid">>)

\* One iteration of the loop of lines 61-78.
parseField(t, field) ==
    LET value == template(field, properties, model.context)
    IN IF value = Undefined \/ value = Null \/ value = EmptyString
       THEN IF field.uuid /\ op = "put"
            THEN add(t, field, uuid)
            ELSE IF field.name = index.sort /\ params.high
            THEN [t EXCEPT !.fallback = TRUE]
            ELSE IF value = Undefined \/ (value = Null /\ field.nulls # TRUE)
            THEN t
            ELSE add(t, field, value)
       ELSE IF TypeofObject(value)
       THEN add(t, field, removeEmptyStrings(field, value))
       ELSE add(t, field, value)

\* Object.entries(properties) in insertion order.
PropertyOrder == <<"pk", "sk", "gs1pk", "status", "extra">>

\* fields[name], line 89: is the name a field of the model?
IsField(name) == \E j \in 1..Len(model.fields) : model.fields[j].name = name

\* The loop of lines 88-92 from the j-th property on.
RECURSIVE AdHocFilters(_, _)
AdHocFilters(t, j) ==
    IF j > Len(PropertyOrder) THEN t
    ELSE LET name == PropertyOrder[j]
             value == Lookup(properties, name)
         IN IF name \notin DOMAIN properties \/ IsField(name) \/ IsNullish(value)
            THEN AdHocFilters(t, j + 1)
            ELSE AdHocFilters(
                    [addFilter(t, name, value) EXCEPT
                        !.fieldValues = Bind(@, name, value)],
                    j + 1)

\* parseFinish without the test of lines 79-81.
parseFinishNoHashCheck(t) ==
    LET t1 == IF op = "delete" \/ op = "put" \/ op = "update"
              THEN addConditions(t, op)
              ELSE IF op = "find" \/ op = "scan"
              THEN addFilters(t)
              ELSE t
    IN IF t1.thrown # "" THEN t1
       ELSE IF op = "scan" THEN AdHocFilters(t1, 1)
       ELSE t1

\* What follows the loop, lines 79-93.
parseFinish(t) ==
    IF op # "scan" /\ IsNullish(Lookup(t.fieldValues, index.hash))
    THEN [t EXCEPT !.thrown = "dynamo: Empty primary hash key"]
    ELSE LET t1 == IF op = "delete" \/ op = "put" \/ op = "update"
                   THEN addConditions(t, op)
                   ELSE IF op = "find" \/ op = "scan"
                   THEN addFilters(t)
                   ELSE t
         IN IF t1.thrown # "" THEN t1
            ELSE IF op = "scan" THEN AdHocFilters(t1, 1)
            ELSE t1

----------------------------------------------------------------------------
(* selectIndex, lines 282-295. *)

selectIndex(indexes, o, p) ==
    IF p.index # "" /\ p.index # "primary"
    THEN [index |-> indexes[p.index], fallback |-> (o # "find" /\ o # "scan")]
    ELSE [index |-> indexes.primary, fallback |-> FALSE]

----------------------------------------------------------------------------
(* prepare, lines 300-365, with and (432-437) and getAction (439-448). *)

RECURSIVE Join(_, _)
Join(terms, sep) ==
    IF terms = <<>> THEN <<>>
    ELSE IF Len(terms) = 1 THEN terms[1]
    ELSE terms[1] \o <<sep>> \o Join(Tail(terms), sep)

and(terms) ==
    IF Len(terms) = 1 THEN Join(terms, "")
    ELSE Join([j \in 1..Len(terms) |-> <<"(">> \o terms[j] \o <<")">>], " and ")

getAction(p) ==
    IF Truthy(p.add) THEN "add"
    ELSE IF Truthy(p.remove) THEN "remove"
    ELSE IF Truthy(p.delete) THEN "delete"
    ELSE "set"

\* key == null, lines 306 and 310: this.key starts as {} and is only extended.
KeyIsNull(t) == FALSE

\* args[name] = val when val != null (the pruning of line 360).
Arg(args, name, present, val) == IF present THEN Bind(args, name, val) ELSE args

\* ExpressionAttributeNames, line 319.
AttributeNamesPresent(t) == DOMAIN t.names # {}
\* ExpressionAttributeValues, line 320.
AttributeValuesPresent(t) == DOMAIN t.names # {}

\* The request of lines 317-360.  The options metrics, capacity, return,
\* consistent, limit, reverse, start, preFormat and postFormat are absent.
Args(t) ==
    LET a1 == Arg(EmptyMap, "ConditionExpression", t.conditions # <<>>, and(t.conditions))
        a2 == Arg(a1, "ExpressionAttributeNames", AttributeNamesPresent(t), t.names)
        a3 == Arg(a2, "ExpressionAttributeValues", AttributeValuesPresent(t), t.values)
        a4 == Arg(a3, "FilterExpression", t.filters # <<>>, and(t.filters))
        a5 == Arg(a4, "KeyConditionExpression", t.keys # <<>>, Join(t.keys, " and "))
        a6 == Arg(a5, "TableName", ~params.batch, model.tableName)
        a7 == Arg(a6, "Item", op = "put", t.values)
        a8 == Arg(a7, "ReturnValues", op = "put" \/ op = "update",
                  IF op = "put" THEN "NONE" ELSE "ALL_NEW")
        a9 == Arg(a8, "UpdateExpression", op = "update" /\ t.updates # <<>>,
                  <<getAction(params), " ">> \o Join(t.updates, ", "))
        a10 == Arg(a9, IF params.batch THEN "Keys" ELSE "Key",
                   op = "delete" \/ op = "get" \/ op = "update", t.key)
        a11 == Arg(a10, "ConsistentRead", op = "find" \/ op = "get" \/ op = "scan", FALSE)
        a12 == Arg(a11, "IndexName",
                   (op = "find" \/ op = "get" \/ op = "scan") /\ params.index # "",
                   params.index)
    IN Arg(a12, "ScanIndexForward", op = "find" \/ op = "scan", TRUE)

Pending == [kind |-> "pending", args |-> EmptyMap]

\* prepare without the test of lines 303-305.
prepareIgnoringFallback(t) ==
    IF (op = "get" \/ op = "delete" \/ op = "update") /\ KeyIsNull(t)
    THEN [kind |-> "null", args |-> EmptyMap]
    ELSE [kind |-> "request", args |-> Args(t)]

prepare(t) ==
    IF t.fallback THEN [kind |-> "null", args |-> EmptyMap]
    ELSE IF KeyIsNull(t) /\ IsNullish(Lookup(t.values, index.hash)) /\ op # "scan"
    THEN [kind |-> "error", args |-> EmptyMap]
    ELSE IF (op = "get" \/ op = "delete" \/ op = "update") /\ KeyIsNull(t)
    THEN [kind |-> "null", args |-> EmptyMap]
    ELSE [kind |-> "request", args |-> Args(t)]

----------------------------------------------------------------------------
(* The inputs of a translation: the model the schema registry supplies and  *)
(* the operation, properties and params of the caller.                      *)

Ops == {"delete", "find", "get", "put", "scan", "update"}

Indexes == [primary |-> [hash |-> "pk", sort |-> "sk"],
            gs1 |-> [hash |-> "gs1pk", sort |-> "gs1sk"]]

\* sk: {value: 'u:${status}:${gs1pk}'}
SortTemplate == Str(<<Text(<<"u", ":">>), Var("status"), Text(<<":">>), Var("gs1pk")>>)

FieldDef(name, attribute, isIndexed, isUuid, nulls, value) ==
    [name |-> name, attribute |-> attribute, isIndexed |-> isIndexed,
     uuid |-> isUuid, nulls |-> nulls, value |-> value]

\* A field table: the primary keys pk and sk, the hash key of the secondary
\* index gs1 and the plain attribute status (stored as st), which may
\* generate a uuid and may allow nulls; sk may be computed by a template.
FieldTable(skValue, isUuid, nulls) ==
    <<FieldDef("pk", "pk", TRUE, FALSE, FALSE, Undefined),
      FieldDef("sk", "sk", TRUE, FALSE, FALSE, skValue),
      FieldDef("gs1pk", "gs1pk", TRUE, FALSE, FALSE, Undefined),
      FieldDef("status", "st", FALSE, isUuid, nulls, Undefined)>>

\* The field tables tried with an operation and its properties.  Each flag
\* is varied where the code reads it: a template replaces the property of
\* its field (line 371), uuid counts for put only (line 64), nulls for null
\* and structured values only (lines 70, 416).
FieldTables(o, props) ==
    {FieldTable(skValue, isUuid, nulls) :
        skValue \in (IF props.sk = Undefined THEN {Undefined, SortTemplate}
                     ELSE {Undefined}),
        isUuid \in (IF o = "put" THEN BOOLEAN ELSE {FALSE}),
        nulls \in (IF TypeofObject(props.status) THEN BOOLEAN ELSE {FALSE})}

FieldMap == [pk |-> "pk", sk |-> "sk", gs1pk |-> "gs1pk", status |-> "st"]

Model(fieldTable, context) ==
    [fields |-> fieldTable, map |-> FieldMap, indexes |-> Indexes, delimiter |-> ":",
     tableName |-> "table", context |-> context]

\* The values a caller gives the properties.
HashValues == {Undefined, Str(<<"a">>)}
SortValues == {Undefined, Str(<<"b">>),
               Obj(<<Entry("begins", Str(<<"b">>))>>),
               Obj(<<Entry("between", Arr(<<Entry("0", Str(<<"b">>)),
                                            Entry("1", Str(<<"c">>))>>))>>),
               Obj(<<Entry("<", Str(<<"b">>))>>)}
GsiValues == {Undefined, Str(<<"g">>)}
StatusValues == {Undefined, Null, EmptyString, Str(<<"s">>),
                 Obj(<<Entry("x", EmptyString), Entry("y", Null),
                       Entry("z", Arr(<<Entry("0", EmptyString),
                                        Entry("1", Str(<<"v">>))>>))>>)}
ExtraValues == {Undefined, Str(<<"e">>)}

\* The properties tried with an operation; a property that is no field of
\* the model is read by scan only (lines 87-93).
PropertySets(o) ==
    [pk : HashValues, sk : SortValues, gs1pk : GsiValues, status : StatusValues,
     extra : IF o = "scan" THEN ExtraValues ELSE {Undefined}]

\* this.table.context
Contexts == {EmptyMap, [status |-> Str(<<"c">>)]}

\* where: '${status} = {"a"} and ${hits} > {03}', and 'hits > {3}'
Wheres ==
    {Undefined,
     Str(<<Var("status"), Text(<<" = ">>), Val(<<"\"", "a", "\"">>), Text(<<" and ">>),
           Var("hits"), Text(<<" > ">>), Val(<<"0", "3">>)>>),
     Str(<<Text(<<"hits > ">>), Val(<<"3">>)>>)}

\* The first n entries of a bulk option: c1: 1, c2: 2, ...
BulkPairs(n) == [j \in 1..n |-> Entry("c" \o ToString(j), Num(<<ToString(j)>>))]
\* The first n names of a remove list: ['c1', 'c2', ...]
BulkNames(n) == [j \in 1..n |-> Entry(ToString(j - 1), Str(<<"c" \o ToString(j)>>))]

NoBulk == [add |-> Undefined, remove |-> Undefined, delete |-> Undefined]
Bulks ==
    {NoBulk}
    \cup {[NoBulk EXCEPT !.add = Obj(BulkPairs(n))] : n \in 1..MaxBulk}
    \cup {[NoBulk EXCEPT !.remove = Arr(BulkNames(n))] : n \in 1..MaxBulk}
    \cup {[NoBulk EXCEPT !.delete = Obj(BulkPairs(n))] : n \in 1..MaxBulk}

Params(indexName, high, where, bulk, exists) ==
    [index |-> indexName, high |-> high, where |-> where, add |-> bulk.add,
     remove |-> bulk.remove, delete |-> bulk.delete, exists |-> exists,
     type |-> "", batch |-> FALSE]

\* The index and high options: high is read for the sort field of the active
\* index only (line 66), which the model defines for the primary index.
IndexOptions == {<<"", FALSE>>, <<"", TRUE>>, <<"primary", FALSE>>, <<"gs1", FALSE>>}

\* The params of an operation: each option is varied for the operations
\* whose code reads it (where: lines 149, 189, 395; add, remove and delete:
\* update only; exists: the condition assembler).
ParamSets(o) ==
    {Params(io[1], io[2], where, bulk, exists) :
        io \in IndexOptions,
        where \in (IF o \in {"delete", "find", "scan", "update"} THEN Wheres
                   ELSE {Undefined}),
        bulk \in (IF o = "update" THEN Bulks ELSE {NoBulk}),
        exists \in (IF o = "put" THEN {"absent", "true", "false"} ELSE {"absent"})}

----------------------------------------------------------------------------
(* The state machine. *)

Idle ==
    /\ pc = "idle" /\ i = 0 /\ op = ""
    /\ params = Params("", FALSE, Undefined, NoBulk, "absent")
    /\ properties = EmptyMap
    /\ model = Model(<<>>, EmptyMap)
    /\ index = Indexes.primary
    /\ conditions = <<>> /\ filters = <<>> /\ key = EmptyMap /\ keys = <<>>
    /\ updates = <<>> /\ names = EmptyMap /\ values = EmptyMap
    /\ fieldValues = EmptyMap /\ nindex = 0 /\ vindex = 0
    /\ fallback = FALSE /\ thrown = "" /\ result = Pending

\* No Expression exists yet.
Init == Idle

\* The Expression takes the fields of the record t.
Store(t) ==
    /\ conditions' = t.conditions /\ filters' = t.filters /\ key' = t.key
    /\ keys' = t.keys /\ updates' = t.updates /\ names' = t.names
    /\ values' = t.values /\ fieldValues' = t.fieldValues
    /\ nindex' = t.nindex /\ vindex' = t.vindex
    /\ fallback' = t.fallback /\ thrown' = t.thrown

\* this.nindex = 0, this.vindex = 0: lines 30-31.
FirstIndex == 0

\* new Expression(model, op, properties, params), lines 12-49: the fields
\* are initialised and the index selected; parseFields follows unless the
\* translation falls back.
New(m, o, props, p) ==
    /\ op' = o /\ params' = p /\ properties' = props /\ model' = m
    /\ LET sel == selectIndex(m.indexes, o, p)
       IN /\ index' = sel.index
          /\ fallback' = sel.fallback
          /\ pc' = IF sel.fallback THEN "constructed" ELSE "parse"
    /\ i' = 1
    /\ conditions' = <<>> /\ filters' = <<>> /\ key' = EmptyMap /\ keys' = <<>>
    /\ updates' = <<>> /\ names' = EmptyMap /\ values' = EmptyMap
    /\ fieldValues' = EmptyMap /\ nindex' = FirstIndex /\ vindex' = FirstIndex
    /\ thrown' = "" /\ result' = Pending

\* One iteration of the loop of parseFields, lines 61-78.
ParseField ==
    /\ pc = "parse" /\ i <= Len(model.fields)
    /\ LET t == parseField(This, model.fields[i])
       IN /\ Store(t)
          /\ pc' = IF t.thrown # "" THEN "error"
                   ELSE IF t.fallback THEN "constructed"
                   ELSE "parse"
    /\ i' = i + 1
    /\ UNCHANGED <<op, params, properties, model, index, result>>

\* The rest of parseFields, lines 79-93, which ends the constructor.
ParseFinish ==
    /\ pc = "parse" /\ i > Len(model.fields)
    /\ LET t == parseFinish(This)
       IN /\ Store(t)
          /\ pc' = IF t.thrown # "" THEN "error" ELSE "constructed"
    /\ UNCHANGED <<i, op, params, properties, model, index, result>>

\* prepare(), lines 300-365.
Prepare ==
    /\ pc = "constructed"
    /\ result' = prepare(This)
    /\ pc' = "done"
    /\ UNCHANGED <<i, op, params, properties, model, index, conditions, filters, key,
                   keys, updates, names, values, fieldValues, nindex, vindex,
                   fallback, thrown>>

\* The Expression is discarded after its request is produced or its
\* translation failed; the next operation gets a new one.
Discard ==
    /\ pc \in {"done", "error"}
    /\ pc' = "idle" /\ i' = 0 /\ op' = ""
    /\ params' = Params("", FALSE, Undefined, NoBulk, "absent")
    /\ properties' = EmptyMap
    /\ model' = Model(<<>>, EmptyMap)
    /\ index' = Indexes.primary
    /\ conditions' = <<>> /\ filters' = <<>> /\ key' = EmptyMap /\ keys' = <<>>
    /\ updates' = <<>> /\ names' = EmptyMap /\ values' = EmptyMap
    /\ fieldValues' = EmptyMap /\ nindex' = 0 /\ vindex' = 0
    /\ fallback' = FALSE /\ thrown' = "" /\ result' = Pending

Next ==
    \/ /\ pc = "idle"
       /\ \E o \in Ops : \E props \in PropertySets(o), p \in ParamSets(o) :
             \E f \in FieldTables(o, props), c \in Contexts :
                New(Model(f, c), o, props, p)
    \/ ParseField
    \/ ParseFinish
    \/ Prepare
    \/ Discard

Spec == Init /\ [][Next]_vars

----------------------------------------------------------------------------
(* removeEmptyStrings on its own: the nested structures of depth at most    *)
(* MaxDepth, for a field that allows nulls and for one that does not.       *)

Leaves == {Null, EmptyString, Str(<<"v">>)}

\* The entry lists with at most two entries whose values come from vals.
EntryLists(k1, k2, vals) ==
    {<<>>} \cup {<<Entry(k1, v)>> : v \in vals}
           \cup {<<Entry(k1, v), Entry(k2, w)>> : v \in vals, w \in vals}

RECURSIVE Structures(_)
Structures(d) ==
    IF d = 0 THEN Leaves
    ELSE LET inner == Structures(d - 1)
         IN Leaves \cup {Obj(e) : e \in EntryLists("a", "b", inner)}
                   \cup {Arr(e) : e \in EntryLists("0", "1", inner)}

\* parseFields hands over what typeof calls an object, and not null
\* (lines 63, 73).
SanitizerInputs == {v \in Structures(MaxDepth) : v.k \in {"object", "array"}}

SanitizeInit ==
    /\ pc = "sanitize" /\ i = 1 /\ op = "put"
    /\ params = Params("", FALSE, Undefined, NoBulk, "absent")
    /\ \E v \in SanitizerInputs : properties = [status |-> v]
    /\ \E nulls \in BOOLEAN :
          model = Model(<<FieldDef("status", "st", FALSE, FALSE, nulls, Undefined)>>,
                        EmptyMap)
    /\ index = Indexes.primary
    /\ conditions = <<>> /\ filters = <<>> /\ key = EmptyMap /\ keys = <<>>
    /\ updates = <<>> /\ names = EmptyMap /\ values = EmptyMap
    /\ fieldValues = EmptyMap /\ nindex = 0 /\ vindex = 0
    /\ fallback = FALSE /\ thrown = "" /\ result = Pending

\* value = this.removeEmptyStrings(field, value), line 74.
Sanitize ==
    /\ pc = "sanitize"
    /\ fieldValues' = Bind(fieldValues, model.fields[1].attribute,
                           removeEmptyStrings(model.fields[1], properties.status))
    /\ pc' = "sanitized"
    /\ UNCHANGED <<i, op, params, properties, model, index, conditions, filters, key,
                   keys, updates, names, values, nindex, vindex, fallback, thrown,
                   result>>

SpecSanitize == SanitizeInit /\ [][Sanitize]_vars

----------------------------------------------------------------------------
(* What the properties below speak of. *)

FieldIndexes == 1..Len(model.fields)

\* The value the Template Resolver gives field j.
Resolved(j) == template(model.fields[j], properties, model.context)

Empty(v) == v = Undefined \/ v = Null \/ v = EmptyString

\* The value of field j as it is written into the request: sanitized when
\* structured.
Written(j) ==
    IF TypeofObject(Resolved(j)) /\ Resolved(j) # Null
    THEN removeEmptyStrings(model.fields[j], Resolved(j))
    ELSE Resolved(j)

\* No field resolves a non-null value for the hash attribute of the index.
NoHashValue ==
    \A j \in FieldIndexes :
        model.fields[j].attribute = index.hash => IsNullish(Resolved(j))

Translating == pc \in {"parse", "constructed", "done", "error"}

----------------------------------------------------------------------------
(* C1 *)

----------------------------------------------------------------------------
(* C2 *)

\* C2: the Item of a put request has an entry for a field's attribute if and
\* only if the field's resolved value is defined and non-empty (the entry is
\* that value), or the field generates a uuid and its resolved value is
\* empty (the entry is the generated identifier); it has no other entries.
C2_ItemExactlyNonEmpty ==
    (pc = "done" /\ op = "put" /\ result.kind = "request") =>
        /\ \A j \in FieldIndexes :
              LET field == model.fields[j]
              IN IF ~Empty(Resolved(j))
                 THEN /\ field.attribute \in DOMAIN result.args.Item
                      /\ result.args.Item[field.attribute] = Written(j)
                 ELSE IF field.uuid
                 THEN /\ field.attribute \in DOMAIN result.args.Item
                      /\ result.args.Item[field.attribute] = uuid
                 ELSE field.attribute \notin DOMAIN result.args.Item
        /\ DOMAIN result.args.Item
              \subseteq {model.fields[j].attribute : j \in FieldIndexes}

----------------------------------------------------------------------------
(* C3 *)

NameTokens(from, to) == {NameToken(n) : n \in from..(to - 1)}
ValueTokens(from, to) == {ValueToken(n) : n \in from..(to - 1)}

\* The keys of this.values that are no tokens: put writes the attributes of
\* the item there (line 116).
ItemAttributes ==
    IF op = "put" THEN {model.fields[j].attribute : j \in FieldIndexes} ELSE {}

\* A step of one translation: the counters only increase, the tokens it
\* allocates are exactly #_n and :_n for the values the counters pass, and
\* no token bound before is dropped or bound to something else.
C3_AllocatingStep ==
    /\ nindex' >= nindex /\ vindex' >= vindex
    /\ DOMAIN names' \ DOMAIN names = NameTokens(nindex, nindex')
    /\ (DOMAIN values' \ DOMAIN values) \ ItemAttributes = ValueTokens(vindex, vindex')
    /\ DOMAIN names' = NameTokens(0, nindex')
    /\ DOMAIN values' \ ItemAttributes = ValueTokens(0, vindex')
    /\ \A k \in DOMAIN names : names'[k] = names[k]
    /\ \A k \in DOMAIN values \ ItemAttributes : values'[k] = values[k]

\* C3: within one translation every name token is #_n and every value token
\* :_n, with n from a counter that starts at 0 and only increases; no token
\* is allocated twice or bound to another attribute or literal; a new
\* translation starts again at 0.
C3_TokensUnique ==
    [][IF pc = "idle"
       THEN nindex' = 0 /\ vindex' = 0 /\ DOMAIN names' = {} /\ DOMAIN values' = {}
       ELSE pc' # "idle" => C3_AllocatingStep]_vars

\* A query whose key conditions, filter and where-clause all took tokens.
C3_Witness ==
    /\ pc = "done" /\ op = "find" /\ result.kind = "request"
    /\ Len(keys) = 2 /\ Len(filters) = 2
    /\ nindex = 5 /\ vindex >= 5

----------------------------------------------------------------------------
(* C4 *)

\* C4: once fallback is true it stays true, nothing is added to the
\* fragments, the key, the placeholder maps or the resolved values, and
\* prepare() returns null.
C4_FallbackIsFinal ==
    [][fallback =>
          \/ /\ pc = "constructed" /\ pc' = "done"
             /\ fallback' /\ result'.kind = "null"
             /\ UNCHANGED <<conditions, filters, key, keys, updates, names, values,
                            fieldValues, nindex, vindex>>
          \/ pc = "done" /\ pc' = "idle"]_vars

\* A high-level call fell back at its empty sort field, after the hash field
\* was processed, and prepare() returned null.
C4_Witness ==
    /\ pc = "done" /\ fallback /\ params.high /\ result.kind = "null"
    /\ "pk" \in DOMAIN fieldValues /\ i = 3

----------------------------------------------------------------------------
(* C5 *)

\* A structured value whose directive the key-condition assembler does not
\* know.
UnsupportedDirective(v) ==
    /\ v.k \in {"object", "array"} /\ v.e # <<>>
    /\ v.e[1].key \notin {"begins", "begins_with", "between"}

\* C5: in a find, a key field whose value is a structured value with a
\* directive other than begins, begins_with or between makes the translation
\* fail: no request is produced.
C5_UnsupportedDirectiveFails ==
    (Translating /\ op = "find"
     /\ \E j \in FieldIndexes :
           /\ model.fields[j].isIndexed
           /\ model.fields[j].attribute \in {index.hash, index.sort}
           /\ UnsupportedDirective(Written(j)))
    => result.kind # "request"

----------------------------------------------------------------------------
(* C6 *)

\* The structure v has, at some depth, an entry whose value is x.
RECURSIVE Contains(_, _)
Contains(v, x) ==
    \E j \in 1..Len(v.e) : v.e[j].val = x \/ Contains(v.e[j].val, x)

\* v without its empty-string entries and, unless nulls are allowed, without
\* its null entries, at every depth; every other entry kept.
RECURSIVE Cleaned(_, _)
RECURSIVE CleanedEntries(_, _)
CleanedEntries(nulls, entries) ==
    IF entries = <<>> THEN <<>>
    ELSE LET ent == Head(entries)
             rest == CleanedEntries(nulls, Tail(entries))
         IN IF ent.val = EmptyString \/ (ent.val = Null /\ ~nulls)
            THEN rest
            ELSE <<Entry(ent.key, Cleaned(nulls, ent.val))>> \o rest
Cleaned(nulls, v) ==
    IF v.k \in {"object", "array"}
    THEN [v EXCEPT !.e = CleanedEntries(nulls, v.e)]
    ELSE v

\* C6: the sanitized structure has no empty-string entry at any depth and,
\* unless the field allows nulls, no null entry at any depth; all other
\* entries are kept.
C6_NoEmptyNoNull ==
    pc = "sanitized" =>
        LET out == fieldValues["st"]
            nulls == model.fields[1].nulls
        IN /\ ~Contains(out, EmptyString)
           /\ ~nulls => ~Contains(out, Null)
           /\ out = Cleaned(nulls, properties.status)

----------------------------------------------------------------------------
(* C7 *)

\* A non-empty string.
Plain(v) == v.k = "string" /\ v.s # <<>>

\* The fields without a template that parseFields has taken into the
\* resolved values.
Taken ==
    {j \in FieldIndexes :
        /\ pc \in {"parse", "constructed", "done"}
        /\ j < i
        /\ IsNullish(model.fields[j].value)}

----------------------------------------------------------------------------
(* C8 *)

\* The entries of the bulk option given.
BulkEntries ==
    IF Truthy(params.add) THEN params.add.e
    ELSE IF Truthy(params.remove) THEN RemoveList
    ELSE params.delete.e

BulkGiven == Truthy(params.add) \/ Truthy(params.remove) \/ Truthy(params.delete)

\* The fragments claimed: `#_n :_m` per pair of add or delete, a bare `#_n`
\* per name of remove.
BulkFragments ==
    [j \in 1..Len(BulkEntries) |->
        IF Truthy(params.add) \/ ~Truthy(params.remove)
        THEN <<NameToken(j - 1), " ", ValueToken(j - 1)>>
        ELSE <<NameToken(j - 1)>>]

\* C8: an update with one of add, remove or delete has the update expression
\* `<action> f1, f2, ...` with one fragment per entry, each name token bound
\* to the attribute of its entry and each value token to its value, and no
\* `name = value` fragment.
C8_BulkUpdateExpression ==
    (op = "update" /\ BulkGiven /\ ~fallback /\ i > Len(model.fields)
     /\ pc \in {"constructed", "done", "error"}
     /\ thrown # "dynamo: Empty primary hash key")
    => /\ thrown = ""
       /\ updates = BulkFragments
       /\ \A j \in 1..Len(BulkEntries) :
             IF Truthy(params.add) \/ ~Truthy(params.remove)
             THEN /\ names[NameToken(j - 1)] = BulkEntries[j].key
                  /\ values[ValueToken(j - 1)] = BulkEntries[j].val
             ELSE names[NameToken(j - 1)] = BulkEntries[j].val.s[1]
       /\ pc = "done" =>
             /\ result.kind = "request"
             /\ result.args.UpdateExpression
                   = <<getAction(params), " ">> \o Join(BulkFragments, ", ")

----------------------------------------------------------------------------
(* C9 *)

\* The filter fragments `#_n = :_m` with #_n bound to the attribute and :_m
\* to the value.
EqualityFilters(attribute, value) ==
    {f \in 1..Len(filters) :
        /\ Len(filters[f]) = 3 /\ filters[f][2] = " = "
        /\ filters[f][1] \in DOMAIN names /\ filters[f][3] \in DOMAIN values
        /\ filters[f][1] \in NameTokens(0, nindex)
        /\ filters[f][3] \in ValueTokens(0, vindex)
        /\ names[filters[f][1]] = attribute
        /\ values[filters[f][3]] = value}

\* The filter fragments whose name token is bound to the attribute.
FiltersOn(attribute) ==
    {f \in 1..Len(filters) :
        /\ Len(filters[f]) = 3 /\ filters[f][1] \in DOMAIN names
        /\ names[filters[f][1]] = attribute}

Queried == pc = "done" /\ result.kind = "request" /\ op \in {"find", "scan"}

\* C9, as claimed: in the request of a find or scan every field that is not
\* the hash or sort attribute of the active index and has a defined,
\* non-empty resolved value has exactly one equality filter fragment, keys
\* of another index included.
C9_FilterPerNonActiveKey ==
    Queried =>
        \A j \in FieldIndexes :
            (model.fields[j].attribute \notin {index.hash, index.sort}
             /\ ~Empty(Resolved(j)))
            => Cardinality(EqualityFilters(model.fields[j].attribute, Written(j))) = 1

\* C9, amended: in the request of a find or scan every field that is no key
\* of any index (isIndexed is false) and has a defined, non-empty resolved
\* value has exactly one equality filter fragment `#_n = :_m`, #_n bound to
\* its attribute and :_m to its value; a field that is a key of an index,
\* the active one or another, has none.
C9_FilterPerPlainField ==
    Queried =>
        \A j \in FieldIndexes :
            /\ (~model.fields[j].isIndexed /\ ~Empty(Resolved(j)))
               => /\ Cardinality(EqualityFilters(model.fields[j].attribute,
                                                 Written(j))) = 1
                  /\ Cardinality(FiltersOn(model.fields[j].attribute)) = 1
                  /\ "FilterExpression" \in DOMAIN result.args
            /\ model.fields[j].isIndexed
               => FiltersOn(model.fields[j].attribute) = {}

\* A query on the primary index with status and the key of gs1 given: one
\* filter, on st.
C9_Witness ==
    /\ Queried /\ op = "find" /\ index = Indexes.primary
    /\ Plain(Lookup(properties, "gs1pk")) /\ Plain(Lookup(fieldValues, "st"))
    /\ Len(filters) = 1
    /\ Cardinality(EqualityFilters("st", Lookup(fieldValues, "st"))) = 1

----------------------------------------------------------------------------
(* C10 *)

Expressions == {"ConditionExpression", "FilterExpression", "KeyConditionExpression",
                "UpdateExpression"}

\* C10: every name token and value token in an expression of a request is
\* bound in the ExpressionAttributeNames, respectively
\* ExpressionAttributeValues, of that request.
C10_TokensBound ==
    (pc = "done" /\ result.kind = "request") =>
        \A x \in Expressions \cap DOMAIN result.args :
            \A k \in 1..Len(result.args[x]) :
                LET piece == result.args[x][k]
                IN /\ piece \in NameTokens(0, nindex + 1)
                      => /\ "ExpressionAttributeNames" \in DOMAIN result.args
                         /\ piece \in DOMAIN result.args.ExpressionAttributeNames
                   /\ piece \in ValueTokens(0, vindex + 2)
                      => /\ "ExpressionAttributeValues" \in DOMAIN result.args
                         /\ piece \in DOMAIN result.args.ExpressionAttributeValues

====
